---- MODULE Spec2Model ----
(***************************************************************************)
(* Position reconciliation (DataCollector) and opportunity generation      *)
(* (TradingAnalyzer) of the Hyperliquid loser tracker, over a relational   *)
(* store of traders, positions, performance snapshots and opportunities.   *)
(*                                                                         *)
(* Time is counted in hours (datetime.utcnow()); a calendar date is the    *)
(* hour count divided by 24.  Percentages (pnl_percentage, win_rate,       *)
(* confidence_score) are stored in hundredths, the scale of their          *)
(* Numeric(_, 2) columns.  Prices and sizes are whole numbers.             *)
(***************************************************************************)
EXTENDS Integers, Sequences, FiniteSets, TLC

\* ---------------------------------------------------------------- bounds
MaxPositions == 2
MaxFetch == 2
MaxDay == 1
MaxHour == 1
MaxOpportunities == 2
MaxBatch == 2
MaxThreads == 2

\* ------------------------------------------------------ program constants
confidence_threshold == 70
RecentHours == 1
LookbackDays == 30
RetentionHours == 24
MinAccountValue == 10000
max_workers == 4
None == -999

Addresses == {"0xA", "0xB"}

VARIABLES traders, positions, performance, opportunities, now, last, runs

vars == <<traders, positions, performance, opportunities, now, last, runs>>

\* ---------------------------------------------------------------- helpers
Abs(x) == IF x < 0 THEN -x ELSE x

Min(a, b) == IF a <= b THEN a ELSE b

Max(a, b) == IF a >= b THEN a ELSE b

\* a / b rounded to the nearest whole number (a >= 0, b > 0), the rounding of
\* a Numeric(_, 2) column on a value held in hundredths
RoundDiv(a, b) == (2 * a + b) \div (2 * b)

Today(t) == t \div 24

RECURSIVE SumOver(_, _, _)
SumOver(rows, ids, field) ==
    IF ids = {} THEN 0
    ELSE LET i == CHOOSE j \in ids : TRUE
         IN rows[i][field] + SumOver(rows, ids \ {i}, field)

SeqsUpTo(S, n) == UNION {[1..k -> S] : k \in 0..n}

Orders(S) == {s \in [1..Cardinality(S) -> S] : \A x \in S : \E i \in DOMAIN s : s[i] = x}

\* ------------------------------------------------- the exchange's answers
\* One entry of user_state["assetPositions"]: the fields get_open_positions reads.
RawPosition(c, s) ==
    [coin |-> c, szi |-> s,
     entryPx |-> (IF c = "BTC" THEN 50000 ELSE 3000) + Abs(s),
     positionValue |-> Abs(s) * ((IF c = "BTC" THEN 50000 ELSE 3000) + Abs(s)),
     unrealizedPnl |-> IF s = 1 THEN 500 ELSE 0 - 100 * Abs(s),
     leverage |-> 10,
     liquidationPx |-> IF s = -1 THEN None ELSE 40000 + s,
     marginUsed |-> 100 * Abs(s)]

\* BTC long in two sizes, ETH short, and an ETH entry of size zero
RawPositions ==
    {RawPosition("BTC", 1), RawPosition("BTC", 2), RawPosition("ETH", -1),
     RawPosition("ETH", 0)}

\* info.user_state(address): an exception (ok = FALSE) or a state holding the
\* asset positions l
UserStatesOver(lists) ==
    {[ok |-> FALSE, accountValue |-> 0, assetPositions |-> <<>>]} \cup
    {[ok |-> TRUE, accountValue |-> 20000, assetPositions |-> l] : l \in lists}

\* the answers drawn for the reconciliation runs: every list up to MaxFetch for
\* the first trader, none or one BTC long for the second
UserStates(a) ==
    IF a = "0xA" THEN UserStatesOver(SeqsUpTo(RawPositions, MaxFetch))
    ELSE UserStatesOver({<<>>, <<RawPosition("BTC", 1)>>})

\* info.all_mids(): a map from some coins to their mid price; {} on failure
MidsSet == {[c \in {} |-> 0], [c \in {"BTC"} |-> 50500]}

\* HyperliquidAPI.get_open_positions
ApiPosition(ap) ==
    [coin |-> ap.coin,
     side |-> IF ap.szi > 0 THEN "LONG" ELSE "SHORT",
     size |-> Abs(ap.szi),
     entry_price |-> ap.entryPx,
     position_value |-> ap.positionValue,
     unrealized_pnl |-> ap.unrealizedPnl,
     leverage |-> ap.leverage,
     liquidation_price |-> ap.liquidationPx,
     margin_used |-> ap.marginUsed]

RECURSIVE ConvertPositions(_)
ConvertPositions(asset_positions) ==
    IF asset_positions = <<>> THEN <<>>
    ELSE LET ap == Head(asset_positions)
             rest == ConvertPositions(Tail(asset_positions))
         IN IF ap.szi # 0 THEN <<ApiPosition(ap)>> \o rest ELSE rest

get_open_positions(user_state) ==
    IF ~user_state.ok THEN <<>> ELSE ConvertPositions(user_state.assetPositions)

\* ------------------------------------------------------------- reconcile
Key(r) == <<r.coin, r.side>>

\* the query of the OPEN rows without the filter on the trader
OpenIds_AnyTrader(rows, tid) == {i \in DOMAIN rows : rows[i].status = "OPEN"}

OpenIds(rows, tid) ==
    {i \in DOMAIN rows : rows[i].trader_id = tid /\ rows[i].status = "OPEN"}

OpenKeys(rows, tid) == {Key(rows[i]) : i \in OpenIds(rows, tid)}

\* existing_map = {(pos.coin, pos.side): pos for pos in db_positions}: one row
\* per key, the last of the query's result, whose order the query leaves open
ExistingMaps(rows, tid) ==
    {m \in [OpenKeys(rows, tid) -> OpenIds(rows, tid)] :
        \A k \in DOMAIN m : Key(rows[m[k]]) = k}

SeenPositions(api_positions) ==
    {Key(api_positions[i]) : i \in DOMAIN api_positions}

\* the update with the size left as it was
UpdateExisting_KeepSize(pos, api_pos, t) ==
    [pos EXCEPT !.unrealized_pnl = api_pos.unrealized_pnl,
                !.position_value = api_pos.position_value,
                !.leverage = api_pos.leverage,
                !.liquidation_price = api_pos.liquidation_price,
                !.margin_used = api_pos.margin_used]

\* the update that also takes the entry price of the fetched snapshot
UpdateExisting_WithEntryPrice(pos, api_pos, t) ==
    [pos EXCEPT !.size = api_pos.size,
                !.entry_price = api_pos.entry_price,
                !.unrealized_pnl = api_pos.unrealized_pnl,
                !.position_value = api_pos.position_value,
                !.leverage = api_pos.leverage,
                !.liquidation_price = api_pos.liquidation_price,
                !.margin_used = api_pos.margin_used]

UpdateExisting(pos, api_pos, t) ==
    [pos EXCEPT !.size = api_pos.size,
                !.unrealized_pnl = api_pos.unrealized_pnl,
                !.position_value = api_pos.position_value,
                !.leverage = api_pos.leverage,
                !.liquidation_price = api_pos.liquidation_price,
                !.margin_used = api_pos.margin_used]

NewPosition(tid, api_pos, t) ==
    [trader_id |-> tid, coin |-> api_pos.coin, side |-> api_pos.side,
     entry_price |-> api_pos.entry_price, size |-> api_pos.size,
     leverage |-> api_pos.leverage, position_value |-> api_pos.position_value,
     unrealized_pnl |-> api_pos.unrealized_pnl, margin_used |-> api_pos.margin_used,
     liquidation_price |-> api_pos.liquidation_price,
     opened_at |-> t, closed_at |-> None, close_price |-> None,
     realized_pnl |-> None, status |-> "OPEN"]

\* for api_pos in api_positions: update the mapped row or add a new one
RECURSIVE UpdateOrCreate(_, _, _, _, _)
UpdateOrCreate(rows, api_positions, existing_map, tid, t) ==
    IF api_positions = <<>> THEN rows
    ELSE LET api_pos == Head(api_positions)
             key == Key(api_pos)
             next == IF key \in DOMAIN existing_map
                     THEN [rows EXCEPT ![existing_map[key]] = UpdateExisting(@, api_pos, t)]
                     ELSE Append(rows, NewPosition(tid, api_pos, t))
         IN UpdateOrCreate(next, Tail(api_positions), existing_map, tid, t)

\* for (coin, side), pos in existing_map.items(): close what was not seen
ClosePositions(rows, existing_map, seen_positions, t) ==
    [i \in DOMAIN rows |->
        IF \E k \in DOMAIN existing_map : existing_map[k] = i /\ k \notin seen_positions
        THEN [rows[i] EXCEPT !.status = "CLOSED", !.closed_at = t]
        ELSE rows[i]]

_update_trader_positions(rows, tid, api_positions, existing_map, t) ==
    ClosePositions(UpdateOrCreate(rows, api_positions, existing_map, tid, t),
                   existing_map, SeenPositions(api_positions), t)

\* ------------------------------------------------------------ performance
\* the computation with a PnL percentage filled in
_calculate_performance_from_positions_WithPnl(rows, tid, t) ==
    [pnl_percentage |-> 0 - 20000, win_rate |-> 0,
     total_trades |-> 100, losing_trades |-> 100]

\* _calculate_performance_from_positions: realized_pnl is never set, so the
\* closed_positions list is empty and the unrealized branch is the one taken.
\* The rows are those opened in the last 30 days (timedelta(days=30)).
_calculate_performance_from_positions(rows, tid, t) ==
    LET ids == {i \in DOMAIN rows : rows[i].trader_id = tid
                                     /\ rows[i].opened_at >= t - LookbackDays * 24}
        closed == {i \in ids : rows[i].status = "CLOSED" /\ rows[i].realized_pnl # None}
        src == IF closed = {} THEN ids ELSE closed
        field == IF closed = {} THEN "unrealized_pnl" ELSE "realized_pnl"
        winning == {i \in src : rows[i][field] > 0}
        losing == {i \in src : rows[i][field] < 0}
    IN [pnl_percentage |-> 0,
        win_rate |-> IF src = {} THEN 0
                     ELSE RoundDiv(Cardinality(winning) * 10000, Cardinality(src)),
        total_trades |-> Cardinality(ids),
        losing_trades |-> Cardinality(losing)]

PerfRow(tid, d, p, account_value) ==
    [trader_id |-> tid, date |-> d,
     pnl_percentage |-> p.pnl_percentage, win_rate |-> p.win_rate,
     total_trades |-> p.total_trades, losing_trades |-> p.losing_trades,
     account_value |-> account_value]

\* the snapshot inserted whether or not the date already has a row
_update_trader_performance_AlwaysAppend(perf, rows, tid, account_value, t) ==
    Append(perf, PerfRow(tid, Today(t), _calculate_performance_from_positions(rows, tid, t),
                         account_value))

\* existing = query(TraderPerformance).filter_by(trader_id, date=today).first()
_update_trader_performance(perf, rows, tid, account_value, t) ==
    LET row == PerfRow(tid, Today(t), _calculate_performance_from_positions(rows, tid, t),
                       account_value)
        existing == {j \in DOMAIN perf : perf[j].trader_id = tid /\ perf[j].date = Today(t)}
    IN IF existing # {}
       THEN [perf EXCEPT ![CHOOSE j \in existing : \A k \in existing : j <= k] = row]
       ELSE Append(perf, row)

\* --------------------------------------------------------------- analyzer
\* TradingAnalyzer._get_recent_positions(db, hours=1): the ids of the rows
_get_recent_positions(rows, trs, t) ==
    {i \in DOMAIN rows : /\ rows[i].opened_at >= t - RecentHours
                         /\ rows[i].status = "OPEN"
                         /\ trs[rows[i].trader_id] = "active"}

\* TradingAnalyzer._get_trader_metrics: count = 0 stands for None.  The
\* averages are kept as the sums and the count they are the quotient of.
_get_trader_metrics(perf, tid, t) ==
    LET ids == {j \in DOMAIN perf : /\ perf[j].trader_id = tid
                                    /\ perf[j].date >= Today(t) - LookbackDays}
    IN [count |-> Cardinality(ids),
        sum_pnl_percentage |-> SumOver(perf, ids, "pnl_percentage"),
        sum_win_rate |-> SumOver(perf, ids, "win_rate"),
        total_trades |-> SumOver(perf, ids, "total_trades"),
        total_losing_trades |-> SumOver(perf, ids, "losing_trades")]

\* TradingAnalyzer._calculate_confidence_score, as the fraction num / den of
\* den = 1000 * count: with the sums in hundredths of a percent,
\*   pnl_factor        = min(|sum_pnl| / (200 * count), 50)
\*   win_rate_factor   = max(0, 3 * (10000 * count - sum_win) / (1000 * count))
\*   trade_count_factor = min(total_trades / 5, 20)
pnl_factor(metrics) ==
    Min(5 * Abs(metrics.sum_pnl_percentage), 50 * 1000 * metrics.count)

\* the win-rate points taken from the win rate instead of its complement
win_rate_factor_Raw(metrics) == Max(0, 3 * metrics.sum_win_rate)

win_rate_factor(metrics) ==
    Max(0, 3 * (10000 * metrics.count - metrics.sum_win_rate))

\* the volume points without their cap
trade_count_factor_Uncapped(metrics) == 200 * metrics.count * metrics.total_trades

trade_count_factor(metrics) ==
    Min(200 * metrics.count * metrics.total_trades, 20 * 1000 * metrics.count)

\* the score without the bonus for extremely bad traders
_calculate_confidence_score_NoBonus(metrics) ==
    LET den == 1000 * metrics.count
    IN [num |-> Min(pnl_factor(metrics) + win_rate_factor(metrics)
                    + trade_count_factor(metrics), 100 * den),
        den |-> den]

_calculate_confidence_score(metrics) ==
    LET n == metrics.count
        den == 1000 * n
        confidence == pnl_factor(metrics) + win_rate_factor(metrics)
                      + trade_count_factor(metrics)
        bonus == IF /\ metrics.sum_pnl_percentage < 0 - 5000 * n
                    /\ metrics.sum_win_rate < 2500 * n
                 THEN Min(confidence + 10 * den, 100 * den)
                 ELSE confidence
    IN [num |-> Min(bonus, 100 * den), den |-> den]

\* the gate with the threshold itself rejected
BelowThreshold_Inclusive(confidence) ==
    confidence.num <= confidence_threshold * confidence.den

\* if confidence < self.confidence_threshold: return None
BelowThreshold(confidence) == confidence.num < confidence_threshold * confidence.den

\* the side handed back unchanged
opposite_side_Same(side) == side

\* Position.opposite_side
opposite_side(side) == IF side = "LONG" THEN "SHORT" ELSE "LONG"

\* the price that ignores the quote
current_price_EntryOnly(mids, position) == position.entry_price

\* current_price = mids.get(position.coin, float(position.entry_price)); the
\* prices are whole numbers, which float() and str() carry over unchanged
current_price(mids, position) ==
    IF position.coin \in DOMAIN mids THEN mids[position.coin] ELSE position.entry_price

\* TradingAnalyzer._analyze_position: <<>> for None, else the new row
_analyze_position(perf, rows, id, mids, t) ==
    LET position == rows[id]
        trader_metrics == _get_trader_metrics(perf, position.trader_id, t)
        confidence == _calculate_confidence_score(trader_metrics)
    IN IF trader_metrics.count = 0 THEN <<>>
       ELSE IF BelowThreshold(confidence) THEN <<>>
       ELSE <<[position_id |-> id, trader_id |-> position.trader_id,
               coin |-> position.coin, loser_side |-> position.side,
               suggested_side |-> opposite_side(position.side),
               loser_entry_price |-> position.entry_price,
               suggested_entry_price |-> current_price(mids, position),
               confidence_score |-> RoundDiv(100 * confidence.num, confidence.den),
               status |-> "ACTIVE", created_at |-> t, expired_at |-> None]>>

\* the existence check that never finds a row
Existing_Never(opps, id) == FALSE

\* existing = db.query(TradeOpportunity).filter_by(position_id=position.id).first()
Existing(opps, id) == \E j \in DOMAIN opps : opps[j].position_id = id

\* one pass of the loop body of analyze_new_positions over the position id
AnalyzeOne(opps, perf, rows, id, mids, t) ==
    IF Existing(opps, id) THEN <<>> ELSE _analyze_position(perf, rows, id, mids, t)

\* the loop of analyze_new_positions over the query's rows in the order the
\* query returned them; mids[id] is the answer of get_all_mids for that row
RECURSIVE AnalyzeAll(_, _, _, _, _, _)
AnalyzeAll(opps, perf, rows, order, mids, t) ==
    IF order = <<>> THEN <<>>
    ELSE AnalyzeOne(opps, perf, rows, Head(order), mids[Head(order)], t)
         \o AnalyzeAll(opps, perf, rows, Tail(order), mids, t)

\* the sweep with the cutoff itself included
expire_old_opportunities_Inclusive(opps, hours, t) ==
    [j \in DOMAIN opps |->
        IF opps[j].status = "ACTIVE" /\ opps[j].created_at <= t - hours
        THEN [opps[j] EXCEPT !.status = "EXPIRED", !.expired_at = t]
        ELSE opps[j]]

\* the sweep without the filter on the status
expire_old_opportunities_AnyStatus(opps, hours, t) ==
    [j \in DOMAIN opps |->
        IF opps[j].created_at < t - hours
        THEN [opps[j] EXCEPT !.status = "EXPIRED", !.expired_at = t]
        ELSE opps[j]]

\* TradingAnalyzer.expire_old_opportunities(hours)
expire_old_opportunities(opps, hours, t) ==
    [j \in DOMAIN opps |->
        IF opps[j].status = "ACTIVE" /\ opps[j].created_at < t - hours
        THEN [opps[j] EXCEPT !.status = "EXPIRED", !.expired_at = t]
        ELSE opps[j]]


Runs == {"scheduler", "api"}

\* a run of analyze_new_positions: where it is, the rows still to visit, and
\* the rows added to its session and not yet committed
Idle == [pc |-> "idle", todo |-> <<>>, pending |-> <<>>]

LastCall(op, a, ok, api_positions) ==
    [op |-> op, address |-> a, ok |-> ok, api_positions |-> api_positions]

\* DataCollector.collect_trader_data(address), committed.  Both calls of
\* info.user_state (account value, open positions) get the answer user_state.
CollectTraderData(a, user_state) ==
    \E existing_map \in ExistingMaps(positions, a) :
        LET api_positions == get_open_positions(user_state)
            rows == _update_trader_positions(positions, a, api_positions, existing_map, now)
        IN /\ Len(rows) <= MaxPositions
           /\ traders' = [traders EXCEPT ![a] = IF @ = "absent" THEN "active" ELSE @]
           /\ performance' = _update_trader_performance(performance, positions, a,
                                                        user_state.accountValue, now)
           /\ positions' = rows
           /\ last' = LastCall("collect", a, user_state.ok, api_positions)
           /\ UNCHANGED <<opportunities, now, runs>>

\* the clock: an hour or a day passes
Tick(d) ==
    /\ \/ d = 1 /\ now % 24 < MaxHour
       \/ d = 24 /\ now \div 24 < MaxDay
    /\ now' = now + d
    /\ last' = LastCall("tick", "", TRUE, <<>>)
    /\ UNCHANGED <<traders, positions, performance, opportunities, runs>>

\* the empty database
Init ==
    /\ traders = [a \in Addresses |-> "absent"]
    /\ positions = <<>>
    /\ performance = <<>>
    /\ opportunities = <<>>
    /\ now = 0
    /\ last = LastCall("init", "", TRUE, <<>>)
    /\ runs = [r \in Runs |-> Idle]

Next ==
    \/ \E a \in Addresses : \E u \in UserStates(a) : CollectTraderData(a, u)
    \/ Tick(1)

Spec == Init /\ [][Next]_vars

\* ------------------------------------------- the generator, run by run
\* TradingAnalyzer.analyze_new_positions(), committed
AnalyzeNewPositionsWith(order, mids) ==
    /\ opportunities' = opportunities
            \o AnalyzeAll(opportunities, performance, positions, order, mids, now)
    /\ last' = LastCall("analyze", "", TRUE, <<>>)
    /\ UNCHANGED <<traders, positions, performance, now, runs>>

\* the run over the rows the query returned, in the order it returned them,
\* with the answer get_all_mids gave for each row
AnalyzeNewPositions ==
    LET recent_positions == _get_recent_positions(positions, traders, now)
    IN \E order \in Orders(recent_positions) : \E mids \in [recent_positions -> MidsSet] :
        AnalyzeNewPositionsWith(order, mids)

\* TradingAnalyzer.expire_old_opportunities(hours), committed
ExpireOldOpportunitiesWith(hours) ==
    /\ opportunities' = expire_old_opportunities(opportunities, hours, now)
    /\ last' = LastCall("expire", "", TRUE, <<>>)
    /\ UNCHANGED <<traders, positions, performance, now, runs>>

\* the call with the default, hours=24
ExpireOldOpportunities == ExpireOldOpportunitiesWith(RetentionHours)

\* A performance snapshot loaded before the run for the date d: pnl_percentage
\* and win_rate in hundredths of a percent.
Snapshot(tid, d, pnl, win, trades) ==
    [trader_id |-> tid, date |-> d, pnl_percentage |-> pnl, win_rate |-> win,
     total_trades |-> trades, losing_trades |-> IF win = 0 THEN trades ELSE 0,
     account_value |-> 20000]

\* the histories the first trader starts with: none, a heavy loser (dated
\* yesterday, or 30 days back), two at the threshold, and a heavy winner
Histories ==
    {<<>>,
     <<Snapshot("0xA", -1, -20000, 0, 100)>>,
     <<Snapshot("0xA", -30, -20000, 0, 100)>>,
     <<Snapshot("0xA", -1, -16000, 10000, 75)>>,
     <<Snapshot("0xA", -1, -16000, 10000, 74)>>,
     <<Snapshot("0xA", -1, 20000, 0, 100)>>}

\* a database holding the first trader, active or deactivated, and its history
InitAnalyze ==
    /\ \E f \in {"active", "inactive"} :
           traders = [a \in Addresses |-> IF a = "0xA" THEN f ELSE "absent"]
    /\ positions = <<>>
    /\ performance \in Histories
    /\ opportunities = <<>>
    /\ now = 0
    /\ last = LastCall("init", "", TRUE, <<>>)
    /\ runs = [r \in Runs |-> Idle]

\* the answers drawn for the generator's runs: no position or one
UserStatesAnalyze ==
    {u \in UserStatesOver({<<>>, <<RawPosition("BTC", 1)>>, <<RawPosition("ETH", -1)>>}) :
        u.ok}

NextAnalyze ==
    \/ \E u \in UserStatesAnalyze : CollectTraderData("0xA", u)
    \/ AnalyzeNewPositions
    \/ ExpireOldOpportunities
    \/ \E d \in {1, 24} : Tick(d)

SpecAnalyze == InitAnalyze /\ [][NextAnalyze]_vars

\* the generator over a store that collect_trader_data alone has filled
NextCollected ==
    \/ \E u \in UserStatesAnalyze : CollectTraderData("0xA", u)
    \/ AnalyzeNewPositions
    \/ \E d \in {1, 24} : Tick(d)

SpecCollected == Init /\ [][NextCollected]_vars

\* ------------------------------------------ the generator, runs overlapping
\* analyze_new_positions up to its loop: the session opens and the query of
\* the recent positions returns its rows in some order
RunStart(r) ==
    /\ runs[r].pc = "idle"
    /\ \E order \in Orders(_get_recent_positions(positions, traders, now)) :
          runs' = [runs EXCEPT ![r] = [pc |-> "loop", todo |-> order, pending |-> <<>>]]
    /\ last' = LastCall("start", r, TRUE, <<>>)
    /\ UNCHANGED <<traders, positions, performance, opportunities, now>>

\* one pass of the loop: the existence check reads the committed rows (the
\* session does not flush before a query), db.add keeps the new row pending
RunStep(r) ==
    /\ runs[r].pc = "loop"
    /\ runs[r].todo # <<>>
    /\ \E mids \in MidsSet :
          runs' = [runs EXCEPT
                     ![r].todo = Tail(@),
                     ![r].pending = @ \o AnalyzeOne(opportunities, performance, positions,
                                                    Head(runs[r].todo), mids, now)]
    /\ last' = LastCall("step", r, TRUE, <<>>)
    /\ UNCHANGED <<traders, positions, performance, opportunities, now>>

\* db.commit() after the loop: the pending rows are inserted
RunCommit(r) ==
    /\ runs[r].pc = "loop"
    /\ runs[r].todo = <<>>
    /\ opportunities' = opportunities \o runs[r].pending
    /\ runs' = [runs EXCEPT ![r] = Idle]
    /\ last' = LastCall("commit", r, TRUE, <<>>)
    /\ UNCHANGED <<traders, positions, performance, now>>

\* a database holding the first trader, active, with a history that passes
\* the gate or one that does not
InitOverlap ==
    /\ traders = [a \in Addresses |-> IF a = "0xA" THEN "active" ELSE "absent"]
    /\ positions = <<>>
    /\ performance \in {<<Snapshot("0xA", -1, -20000, 0, 100)>>,
                        <<Snapshot("0xA", -1, -16000, 10000, 74)>>}
    /\ opportunities = <<>>
    /\ now = 0
    /\ last = LastCall("init", "", TRUE, <<>>)
    /\ runs = [r \in Runs |-> Idle]

NextOverlap ==
    \/ \E u \in UserStatesAnalyze : CollectTraderData("0xA", u)
    \/ \E r \in Runs : RunStart(r)
    \/ \E r \in Runs : RunStep(r)
    \/ \E r \in Runs : RunCommit(r)

SpecOverlap == InitOverlap /\ [][NextOverlap]_vars

\* ------------------------------------------- the generator, calls failing
\* a quote Decimal(str(current_price)) cannot convert (null, empty, not a
\* number): the conversion raises
Malformed == -1

\* the answers of get_all_mids of these runs: the usual ones and a map whose
\* quotes are malformed
MidsFaulty == MidsSet \cup {[c \in {"BTC", "ETH"} |-> Malformed]}

\* _analyze_position raises for the row: it passes the existence check and
\* the gate, and the quote of its coin does not convert
Raises(opps, perf, rows, id, mids, t) ==
    /\ AnalyzeOne(opps, perf, rows, id, [c \in {} |-> 0], t) # <<>>
    /\ rows[id].coin \in DOMAIN mids
    /\ mids[rows[id].coin] = Malformed

\* the loop of analyze_new_positions up to the first exception: the rows
\* appended to the list `opportunities` (and added to the session) so far
RECURSIVE AnalyzeUntilRaise(_, _, _, _, _, _)
AnalyzeUntilRaise(opps, perf, rows, order, mids, t) ==
    IF order = <<>> THEN [added |-> <<>>, raised |-> FALSE]
    ELSE IF Raises(opps, perf, rows, Head(order), mids[Head(order)], t)
         THEN [added |-> <<>>, raised |-> TRUE]
    ELSE LET rest == AnalyzeUntilRaise(opps, perf, rows, Tail(order), mids, t)
         IN [added |-> AnalyzeOne(opps, perf, rows, Head(order), mids[Head(order)], t)
                          \o rest.added,
             raised |-> rest.raised]

\* analyze_new_positions with its except branch: an exception in the loop or
\* in db.commit() is logged, the session closes without a commit, and the list
\* built so far is returned
AnalyzeNewPositionsFaultyWith(order, mids, commit_ok) ==
    LET run == AnalyzeUntilRaise(opportunities, performance, positions, order, mids, now)
        committed == ~run.raised /\ commit_ok
    IN /\ opportunities' = IF committed THEN opportunities \o run.added ELSE opportunities
       /\ last' = [op |-> "analyze", address |-> "", ok |-> committed,
                   api_positions |-> <<>>, returned |-> run.added]
       /\ UNCHANGED <<traders, positions, performance, now, runs>>

AnalyzeNewPositionsFaulty ==
    LET recent_positions == _get_recent_positions(positions, traders, now)
    IN \E order \in Orders(recent_positions) : \E mids \in [recent_positions -> MidsFaulty] :
       \E commit_ok \in BOOLEAN :
          AnalyzeNewPositionsFaultyWith(order, mids, commit_ok)

\* the answers drawn for these runs: no position, one, or two at once
UserStatesFaulty ==
    {u \in UserStatesOver({<<>>, <<RawPosition("BTC", 1)>>,
                           <<RawPosition("BTC", 1), RawPosition("ETH", -1)>>}) : u.ok}

NextFaulty ==
    \/ \E u \in UserStatesFaulty : CollectTraderData("0xA", u)
    \/ AnalyzeNewPositionsFaulty
    \/ Tick(1)

SpecFaulty == InitOverlap /\ [][NextFaulty]_vars

\* ------------------------------------------------------ the expiry sweep
\* an Opportunity loaded without a backing Position row, created at the hour c
SeedOpportunity(c, status, expired_at) ==
    [position_id |-> None, trader_id |-> "0xA", coin |-> "BTC",
     loser_side |-> "LONG", suggested_side |-> "SHORT",
     loser_entry_price |-> 50001, suggested_entry_price |-> 50500,
     confidence_score |-> 8500, status |-> status, created_at |-> c,
     expired_at |-> expired_at]

\* created 26 hours, 24 hours or one hour before the start, in each status;
\* the EXPIRED one was swept an hour before the start
SeedOpportunities ==
    {SeedOpportunity(c, st, None) :
        c \in {0 - RetentionHours - 2, 0 - RetentionHours, 0 - 1},
        st \in {"ACTIVE", "EXECUTED", "CANCELLED"}}
    \cup {SeedOpportunity(0 - RetentionHours - 2, "EXPIRED", 0 - 1)}

\* the retentions the sweep is called with
ExpireHours == {1, RetentionHours}

InitExpire ==
    /\ traders = [a \in Addresses |-> IF a = "0xA" THEN "active" ELSE "absent"]
    /\ positions = <<>>
    /\ performance = <<>>
    /\ opportunities \in SeqsUpTo(SeedOpportunities, MaxOpportunities)
    /\ now = 0
    /\ last = LastCall("init", "", TRUE, <<>>)
    /\ runs = [r \in Runs |-> Idle]

NextExpire ==
    \/ \E hours \in ExpireHours : ExpireOldOpportunitiesWith(hours)
    \/ \E d \in {1, 24} : Tick(d)

SpecExpire == InitExpire /\ [][NextExpire]_vars

\* ------------------------------------------------------------- the score
\* the snapshots the score is computed from: mean PnL from -300% to +200%,
\* win rate from 0 to 100%, from no trade to a hundred thousand
ScoreHistories ==
    {<<Snapshot("0xA", 0 - 1, pnl, win, trades)>> :
        pnl \in {0 - 30000, 0 - 10000, 0 - 8000, 0 - 5001, 0 - 5000, 0 - 2000, 0, 2000, 20000},
        win \in {0, 1500, 2000, 2499, 2500, 4500, 10000},
        trades \in {0, 50, 100, 200, 100000}}

InitScore ==
    /\ traders = [a \in Addresses |-> IF a = "0xA" THEN "active" ELSE "absent"]
    /\ positions = <<>>
    /\ performance \in ScoreHistories
    /\ opportunities = <<>>
    /\ now = 0
    /\ last = LastCall("init", "", TRUE, <<>>)
    /\ runs = [r \in Runs |-> Idle]

\* _calculate_confidence_score(_get_trader_metrics(db, trader_id)): nothing is
\* written; the value returned is kept in `last`
CalculateConfidenceScore(tid) ==
    LET metrics == _get_trader_metrics(performance, tid, now)
    IN /\ metrics.count > 0
       /\ last' = [op |-> "score", address |-> tid, ok |-> TRUE, api_positions |-> <<>>,
                   confidence |-> _calculate_confidence_score(metrics)]
       /\ UNCHANGED <<traders, positions, performance, opportunities, now, runs>>

\* the answers drawn for these runs: no position or a BTC long
UserStatesScore == {u \in UserStatesOver({<<>>, <<RawPosition("BTC", 1)>>}) : u.ok}

NextScore ==
    \/ CalculateConfidenceScore("0xA")
    \/ \E u \in UserStatesScore : CollectTraderData("0xA", u)
    \/ AnalyzeNewPositions

SpecScore == InitScore /\ [][NextScore]_vars

\* ------------------------------------------------- the losing trader's day
\* conftest.sample_loser_trader: an active trader and 30 daily snapshots, for
\* today and the 29 days before, of -85.5 % PnL and a 15.0 % win rate
SampleLoserHistory ==
    [i \in 1..LookbackDays |->
        [Snapshot("0xA", Today(0) - (i - 1), 0 - 8550, 1500, 100)
            EXCEPT !.losing_trades = 85, !.account_value = 5000]]

InitScenario ==
    /\ traders = [a \in Addresses |-> IF a = "0xA" THEN "active" ELSE "absent"]
    /\ positions = <<>>
    /\ performance = SampleLoserHistory
    /\ opportunities = <<>>
    /\ now = 0
    /\ last = LastCall("init", "", TRUE, <<>>)
    /\ runs = [r \in Runs |-> Idle]

\* the trader's new position: an ETH short entered at 3000
ScenarioPosition ==
    [RawPosition("ETH", 0 - 1) EXCEPT !.entryPx = 3000, !.positionValue = 3000]

\* the answers of the day: no position, the ETH short, the ETH short and a BTC long
UserStatesScenario ==
    {u \in UserStatesOver({<<>>, <<ScenarioPosition>>,
                           <<ScenarioPosition, RawPosition("BTC", 1)>>}) : u.ok}

\* info.all_mids() of the day: {} on failure, or a map quoting ETH
MidsScenario == {[c \in {} |-> 0], [c \in {"BTC", "ETH"} |-> IF c = "BTC" THEN 50500 ELSE 3100]}

AnalyzeNewPositionsScenario ==
    LET recent_positions == _get_recent_positions(positions, traders, now)
    IN \E order \in Orders(recent_positions) : \E mids \in [recent_positions -> MidsScenario] :
        AnalyzeNewPositionsWith(order, mids)

NextScenario ==
    \/ \E u \in UserStatesScenario : CollectTraderData("0xA", u)
    \/ AnalyzeNewPositionsScenario
    \/ \E d \in {1, 24} : Tick(d)

SpecScenario == InitScenario /\ [][NextScenario]_vars

\* ---------------------------------------------- collection with failures
\* where a run of collect_trader_data raises: nowhere, in the performance
\* update, in the reconciliation, or at db.commit()
Faults == {"none", "performance", "reconcile", "commit"}

\* DataCollector._get_or_create_trader: a trader not yet stored is added and
\* committed at once
_get_or_create_trader(trs, a) == [trs EXCEPT ![a] = IF @ = "absent" THEN "active" ELSE @]

\* the run whose changes made before the failure stay in the store
collect_trader_data_NoRollback(db, a, user_state, fault, t) ==
    LET trs == _get_or_create_trader(db.traders, a)
        existing_map == CHOOSE m \in ExistingMaps(db.positions, a) : TRUE
        perf == _update_trader_performance(db.performance, db.positions, a,
                                           user_state.accountValue, t)
        rows == _update_trader_positions(db.positions, a, get_open_positions(user_state),
                                         existing_map, t)
    IN [traders |-> trs,
        positions |-> IF fault \in {"none", "commit"} THEN rows ELSE db.positions,
        performance |-> IF fault = "performance" THEN db.performance ELSE perf,
        ok |-> fault = "none"]

\* DataCollector.collect_trader_data(address) on the store db = [traders,
\* positions, performance]: the store it leaves and the boolean it returns.
\* The session's changes reach the store at db.commit() only; an exception
\* leaves the with-block, get_db closes the session and the changes are gone.
\* The fetched lists of these runs repeat no key, so the rows of existing_map
\* are determined.
collect_trader_data(db, a, user_state, fault, t) ==
    LET trs == _get_or_create_trader(db.traders, a)
        existing_map == CHOOSE m \in ExistingMaps(db.positions, a) : TRUE
        perf == _update_trader_performance(db.performance, db.positions, a,
                                           user_state.accountValue, t)
        rows == _update_trader_positions(db.positions, a, get_open_positions(user_state),
                                         existing_map, t)
    IN IF fault = "none"
       THEN [traders |-> trs, positions |-> rows, performance |-> perf, ok |-> TRUE]
       ELSE [traders |-> trs, positions |-> db.positions, performance |-> db.performance,
             ok |-> FALSE]

\* results[address] = ...: the entry of the address is set or overwritten
SetResult(results, a, ok) ==
    [x \in DOMAIN results \cup {a} |-> IF x = a THEN ok ELSE results[x]]

\* the batch that ends at the first address whose collection fails
RECURSIVE collect_multiple_traders_StopOnFailure(_, _, _, _, _, _)
collect_multiple_traders_StopOnFailure(db, results, addresses, answers, faults, t) ==
    IF addresses = <<>> THEN [db |-> db, results |-> results]
    ELSE LET r == collect_trader_data(db, Head(addresses), Head(answers), Head(faults), t)
             next == [traders |-> r.traders, positions |-> r.positions,
                      performance |-> r.performance]
         IN IF ~r.ok THEN [db |-> next, results |-> results]
            ELSE collect_multiple_traders_StopOnFailure(
                     next, SetResult(results, Head(addresses), r.ok),
                     Tail(addresses), Tail(answers), Tail(faults), t)

\* DataCollector.collect_multiple_traders(addresses): answers[i] and faults[i]
\* are the exchange's answer and the failure of the i-th collection
RECURSIVE collect_multiple_traders(_, _, _, _, _, _)
collect_multiple_traders(db, results, addresses, answers, faults, t) ==
    IF addresses = <<>> THEN [db |-> db, results |-> results]
    ELSE LET r == collect_trader_data(db, Head(addresses), Head(answers), Head(faults), t)
         IN collect_multiple_traders(
                [traders |-> r.traders, positions |-> r.positions,
                 performance |-> r.performance],
                SetResult(results, Head(addresses), r.ok),
                Tail(addresses), Tail(answers), Tail(faults), t)

NoResults == [x \in {} |-> FALSE]

Store == [traders |-> traders, positions |-> positions, performance |-> performance]

\* the answers drawn for these runs: a failed fetch, a BTC long, a BTC long
\* and an ETH short
UserStatesBatch ==
    UserStatesOver({<<RawPosition("BTC", 1)>>,
                    <<RawPosition("BTC", 1), RawPosition("ETH", 0 - 1)>>})

\* one run of collect_trader_data(a) that may fail
CollectTraderDataWith(a, user_state, fault) ==
    LET r == collect_trader_data(Store, a, user_state, fault, now)
    IN /\ Len(r.positions) <= MaxPositions
       /\ traders' = r.traders
       /\ positions' = r.positions
       /\ performance' = r.performance
       /\ last' = [op |-> "collect", address |-> a, ok |-> r.ok,
                   api_positions |-> get_open_positions(user_state), fault |-> fault]
       /\ UNCHANGED <<opportunities, now, runs>>

\* one call of collect_multiple_traders(addresses)
CollectMultipleTradersWith(addresses, answers, faults) ==
    LET r == collect_multiple_traders(Store, NoResults, addresses, answers, faults, now)
    IN /\ Len(r.db.positions) <= MaxPositions
       /\ traders' = r.db.traders
       /\ positions' = r.db.positions
       /\ performance' = r.db.performance
       /\ last' = [op |-> "collect_multiple", address |-> "", ok |-> TRUE,
                   api_positions |-> <<>>, addresses |-> addresses, faults |-> faults,
                   results |-> r.results]
       /\ UNCHANGED <<opportunities, now, runs>>

\* the failures drawn for the collections of a batch
BatchFaults == {"none", "reconcile"}

CollectMultipleTraders ==
    \E n \in 0..MaxBatch :
        \E addresses \in [1..n -> Addresses] :
            \E answers \in [1..n -> UserStatesBatch] :
                \E faults \in [1..n -> BatchFaults] :
                    CollectMultipleTradersWith(addresses, answers, faults)

NextBatch ==
    \/ \E a \in Addresses : \E u \in UserStatesBatch : \E fault \in Faults :
           CollectTraderDataWith(a, u, fault)
    \/ CollectMultipleTraders

SpecBatch == Init /\ [][NextBatch]_vars

\* -------------------------------------------------------- the top losers
\* the rows the query of get_top_losers selects: traders JOIN
\* trader_performance WHERE pnl_percentage < 0 AND account_value > 10000
LoserRows(trs, perf) ==
    {j \in DOMAIN perf : /\ trs[perf[j].trader_id] # "absent"
                         /\ perf[j].pnl_percentage < 0
                         /\ perf[j].account_value > MinAccountValue}

\* ORDER BY tp.pnl_percentage ASC: the orders the database may return the
\* selected rows in, rows of equal PnL in any order
LoserOrders(trs, perf) ==
    {o \in Orders(LoserRows(trs, perf)) :
        /\ \A i, k \in DOMAIN o : i # k => o[i] # o[k]
        /\ \A i, k \in DOMAIN o :
              i < k => perf[o[i]].pnl_percentage <= perf[o[k]].pnl_percentage}

\* the dict built for one row of the result
LoserEntry(row) ==
    [address |-> row.trader_id, roi_30d_percent |-> row.pnl_percentage,
     account_value |-> row.account_value, win_rate |-> row.win_rate,
     total_trades |-> row.total_trades]

\* DataCollector.get_top_losers(limit) when the rows come in the order o:
\* LIMIT :limit, then one entry per row
get_top_losers(perf, o, limit) ==
    [i \in 1..Min(limit, Len(o)) |-> LoserEntry(perf[o[i]])]

\* the snapshot a store may hold for a trader and a date: a heavy or a light
\* loss or a gain, on an account of 5000 or of 20000
LoserSnapshots(tid, d) ==
    {[Snapshot(tid, d, pnl, 1500, 100) EXCEPT !.account_value = v] :
        pnl \in {0 - 8550, 0 - 2000, 1000}, v \in {5000, 20000}}

\* the performance tables: for each of the two traders and each of the last
\* two dates no snapshot or one
LoserTables ==
    {a1 \o a2 \o b1 \o b2 :
        a1 \in {<<>>} \cup {<<r>> : r \in LoserSnapshots("0xA", 0)},
        a2 \in {<<>>} \cup {<<r>> : r \in LoserSnapshots("0xA", 0 - 1)},
        b1 \in {<<>>} \cup {<<r>> : r \in LoserSnapshots("0xB", 0)},
        b2 \in {<<>>, <<Snapshot("0xB", 0 - 1, 0 - 8550, 1500, 100)>>}}

InitLosers ==
    /\ traders = [a \in Addresses |-> "active"]
    /\ positions = <<>>
    /\ performance \in LoserTables
    /\ opportunities = <<>>
    /\ now = 0
    /\ last = LastCall("init", "", TRUE, <<>>)
    /\ runs = [r \in Runs |-> Idle]

\* the limits get_top_losers is called with
Limits == {1, 2, 500}

\* one call of get_top_losers(limit): nothing is written; the list returned
\* is kept in `last`
GetTopLosers(limit) ==
    \E o \in LoserOrders(traders, performance) :
        /\ last' = [op |-> "top_losers", address |-> "", ok |-> TRUE, api_positions |-> <<>>,
                    limit |-> limit, returned |-> get_top_losers(performance, o, limit)]
        /\ UNCHANGED <<traders, positions, performance, opportunities, now, runs>>

NextLosers == \E limit \in Limits : GetTopLosers(limit)

SpecLosers == InitLosers /\ [][NextLosers]_vars

\* --------------------------------------------------------- the scheduler
\* In these specifications the variable `runs` holds the DataScheduler
\* object: self.running, self.thread (0 for None), the threads started on
\* _run_scheduler, the futures of self.executor, whether the executor was
\* shut down, the stop() call in progress and whether stop() has returned
\* since the last start().
Loops == 1..MaxThreads

\* the three callables a cycle submits
Phases == {"discover", "update", "generate"}

\* a future of the cycle the loop waits on ("cur"), or one the loop stopped
\* waiting for when future.result(timeout=25) timed out ("old")
Generations == {"cur", "old"}

\* the phase whose wait is let time out: the one that collects, a network
\* round trip and a pause per trader
Slow == {"update"}

TaskIds == {k \in Loops \X Phases \X Generations : k[3] = "old" => k[2] \in Slow}

NoTask == [pc |-> "none", todo |-> <<>>, collecting |-> ""]

\* the futures a worker thread is executing
Executing(tasks) == {k \in TaskIds : tasks[k].pc \notin {"none", "queued"}}

\* the threads inside the while loop of _run_scheduler
AliveLoops(loops) == {l \in Loops : loops[l] \in {"check", "wait"}}

\* a thread slot start() can use: never started or finished, none of its
\* futures left
FreeLoops(r) ==
    {l \in Loops : /\ r.loops[l] \in {"unstarted", "done"}
                   /\ \A k \in TaskIds : k[1] = l => r.tasks[k].pc = "none"}

\* DataScheduler.start()
Start ==
    /\ runs.caller = "idle"
    /\ IF runs.running
       THEN runs' = runs
       ELSE \E l \in FreeLoops(runs) :
               /\ \A l2 \in FreeLoops(runs) : l <= l2
               /\ runs' = [runs EXCEPT !.running = TRUE, !.thread = l,
                                       !.loops[l] = "check", !.stopped = FALSE]
    /\ UNCHANGED <<traders, positions, performance, opportunities, now, last>>

\* DataScheduler.stop() up to self.thread.join(timeout=5)
StopBegin ==
    /\ runs.caller = "idle"
    /\ runs' = [runs EXCEPT !.running = FALSE, !.caller = "join"]
    /\ UNCHANGED <<traders, positions, performance, opportunities, now, last>>

\* the join returns, the thread finished or the 5 seconds over (the loop
\* sleeps up to 30 and waits up to 25 per future), then
\* self.executor.shutdown(wait=False), and stop() returns
StopEnd ==
    /\ runs.caller = "join"
    /\ runs' = [runs EXCEPT !.caller = "idle", !.shutdown = TRUE, !.stopped = TRUE]
    /\ UNCHANGED <<traders, positions, performance, opportunities, now, last>>

\* while self.running: the thread ends, or submits the three callables of a
\* cycle; submit on an executor shut down raises, the except clause of the
\* loop pauses 5 seconds and the loop comes back to the test
LoopCheck(l) ==
    /\ runs.loops[l] = "check"
    /\ IF ~runs.running
       THEN runs' = [runs EXCEPT !.loops[l] = "done"]
       ELSE IF runs.shutdown
       THEN runs' = runs
       ELSE /\ \A p \in Phases : runs.tasks[<<l, p, "cur">>].pc = "none"
            /\ runs' = [runs EXCEPT
                          !.loops[l] = "wait",
                          !.tasks = [k \in TaskIds |->
                                        IF k[1] = l /\ k[3] = "cur"
                                        THEN [NoTask EXCEPT !.pc = "queued"]
                                        ELSE @[k]]]
    /\ UNCHANGED <<traders, positions, performance, opportunities, now, last>>

\* for future in futures: future.result(timeout=25), then the sleep to the
\* next cycle: the futures still running when their wait times out are left
\* to the executor
LoopWait(l) ==
    LET unfinished == {p \in Phases : runs.tasks[<<l, p, "cur">>].pc # "none"}
    IN /\ runs.loops[l] = "wait"
       /\ unfinished \subseteq Slow
       /\ \A p \in unfinished : runs.tasks[<<l, p, "old">>].pc = "none"
       /\ runs' = [runs EXCEPT
                     !.loops[l] = "check",
                     !.tasks = [k \in TaskIds |->
                                   IF k[1] = l /\ k[2] \in unfinished
                                   THEN IF k[3] = "old" THEN runs.tasks[<<l, k[2], "cur">>]
                                        ELSE NoTask
                                   ELSE @[k]]]
       /\ UNCHANGED <<traders, positions, performance, opportunities, now, last>>

\* a worker of ThreadPoolExecutor(max_workers=4) takes the future from the
\* queue; shutdown(wait=False) leaves the queued futures to be run
TaskRun(k) ==
    /\ runs.tasks[k].pc = "queued"
    /\ Cardinality(Executing(runs.tasks)) < max_workers
    /\ runs' = [runs EXCEPT !.tasks[k].pc = "start"]
    /\ UNCHANGED <<traders, positions, performance, opportunities, now, last>>

\* _discover_and_collect_traders: HyperliquidAPI defines no get_leaderboard,
\* the call raises AttributeError, the except clause logs it and the phase
\* ends without a collection
Discover(k) ==
    /\ k[2] = "discover"
    /\ runs.tasks[k].pc = "start"
    /\ runs' = [runs EXCEPT !.tasks[k] = NoTask]
    /\ UNCHANGED <<traders, positions, performance, opportunities, now, last>>

\* _update_existing_positions: the query of the active traders
UpdateQuery(k) ==
    /\ k[2] = "update"
    /\ runs.tasks[k].pc = "start"
    /\ \E order \in Orders({a \in Addresses : traders[a] = "active"}) :
          runs' = [runs EXCEPT !.tasks[k] = [pc |-> "batch", todo |-> order,
                                             collecting |-> ""]]
    /\ UNCHANGED <<traders, positions, performance, opportunities, now, last>>

\* collect_trader_data(address) is entered
CollectBegin(k) ==
    /\ runs.tasks[k].pc = "batch"
    /\ runs.tasks[k].todo # <<>>
    /\ runs.tasks[k].collecting = ""
    /\ runs' = [runs EXCEPT !.tasks[k].collecting = Head(runs.tasks[k].todo)]
    /\ UNCHANGED <<traders, positions, performance, opportunities, now, last>>

\* the answers drawn for the collections of the scheduler
UserStatesDriver == {u \in UserStatesOver({<<>>, <<RawPosition("BTC", 1)>>}) : u.ok}

\* collect_trader_data(address) commits and returns
CollectEnd(k) ==
    /\ runs.tasks[k].collecting # ""
    /\ \E u \in UserStatesDriver :
          LET r == collect_trader_data(Store, runs.tasks[k].collecting, u, "none", now)
          IN /\ Len(r.positions) <= MaxPositions
             /\ traders' = r.traders
             /\ positions' = r.positions
             /\ performance' = r.performance
    /\ runs' = [runs EXCEPT !.tasks[k].collecting = "", !.tasks[k].todo = Tail(@)]
    /\ UNCHANGED <<opportunities, now, last>>

\* the batches are over and the phase returns
UpdateEnd(k) ==
    /\ runs.tasks[k].pc = "batch"
    /\ runs.tasks[k].todo = <<>>
    /\ runs' = [runs EXCEPT !.tasks[k] = NoTask]
    /\ UNCHANGED <<traders, positions, performance, opportunities, now, last>>

\* _generate_opportunities: one run of analyze_new_positions, committed
Generate(k) ==
    /\ k[2] = "generate"
    /\ runs.tasks[k].pc = "start"
    /\ LET recent_positions == _get_recent_positions(positions, traders, now)
       IN \E order \in Orders(recent_positions) : \E mids \in [recent_positions -> MidsSet] :
             opportunities' = opportunities
                 \o AnalyzeAll(opportunities, performance, positions, order, mids, now)
    /\ runs' = [runs EXCEPT !.tasks[k] = NoTask]
    /\ UNCHANGED <<traders, positions, performance, now, last>>

\* the steps of the loop threads and of the workers
NextCycle ==
    \/ \E l \in Loops : LoopCheck(l)
    \/ \E l \in Loops : LoopWait(l)
    \/ \E k \in TaskIds : TaskRun(k)
    \/ \E k \in TaskIds : Discover(k)
    \/ \E k \in TaskIds : UpdateQuery(k)
    \/ \E k \in TaskIds : CollectBegin(k)
    \/ \E k \in TaskIds : CollectEnd(k)
    \/ \E k \in TaskIds : UpdateEnd(k)
    \/ \E k \in TaskIds : Generate(k)

\* the scheduler object after __init__
NewScheduler ==
    [running |-> FALSE, thread |-> 0, loops |-> [l \in Loops |-> "unstarted"],
     tasks |-> [k \in TaskIds |-> NoTask], shutdown |-> FALSE, caller |-> "idle",
     stopped |-> FALSE]

\* a store holding one active trader with a losing history and an ACTIVE
\* opportunity created 26 hours ago
InitStore ==
    /\ traders = [a \in Addresses |-> IF a = "0xA" THEN "active" ELSE "absent"]
    /\ positions = <<>>
    /\ performance = <<Snapshot("0xA", 0 - 1, 0 - 20000, 0, 100)>>
    /\ opportunities = <<SeedOpportunity(0 - RetentionHours - 2, "ACTIVE", None)>>
    /\ now = 0

\* the scheduler started at the start of the application and never stopped
InitCycle ==
    /\ InitStore
    /\ last = LastCall("init", "", TRUE, <<>>)
    /\ runs = [NewScheduler EXCEPT !.running = TRUE, !.thread = 1, !.loops[1] = "check"]

\* every thread that can take a step eventually takes one
SpecCycle == InitCycle /\ [][NextCycle]_vars /\ WF_vars(NextCycle)

InitDriver ==
    /\ InitStore
    /\ last = LastCall("init", "", TRUE, <<>>)
    /\ runs = NewScheduler

NextDriver ==
    \/ Start
    \/ StopBegin
    \/ StopEnd
    \/ NextCycle

SpecDriver == InitDriver /\ [][NextDriver]_vars

\* ================================================== the reconciliation claims
SameKeyOpen(rows, i, j) ==
    /\ rows[i].status = "OPEN" /\ rows[j].status = "OPEN"
    /\ rows[i].trader_id = rows[j].trader_id
    /\ Key(rows[i]) = Key(rows[j])

NoDuplicateOpen(rows) ==
    \A i, j \in DOMAIN rows : SameKeyOpen(rows, i, j) => i = j

DistinctKeys(api_positions) ==
    \A m, n \in DOMAIN api_positions :
        Key(api_positions[m]) = Key(api_positions[n]) => m = n

\* the step is a run of collect_trader_data
CollectStep == last'.op = "collect"

\* C1: after any sequence of reconciliations run one at a time, whatever the
\* fetched lists (keys may repeat in a list), the store holds at most one OPEN
\* Position per (trader, coin, side).
C1_AtMostOneOpenPerKey == NoDuplicateOpen(positions)

\* C2: a second reconciliation of the same trader, run right after the first
\* with the same fetched list, creates no row, makes no status transition and
\* leaves size, PnL, notional, margin, liquidation price, entry price and
\* opened-at of every position as the first run left them.
C2_ReconcileIdempotent ==
    [][(last.op = "collect" /\ last' = last) =>
          /\ Len(positions') = Len(positions)
          /\ \A i \in DOMAIN positions :
                /\ positions'[i].status = positions[i].status
                /\ positions'[i].size = positions[i].size
                /\ positions'[i].unrealized_pnl = positions[i].unrealized_pnl
                /\ positions'[i].position_value = positions[i].position_value
                /\ positions'[i].margin_used = positions[i].margin_used
                /\ positions'[i].liquidation_price = positions[i].liquidation_price
                /\ positions'[i].entry_price = positions[i].entry_price
                /\ positions'[i].opened_at = positions[i].opened_at]_vars

\* C3: a reconciliation whose fetch succeeded closes every OPEN Position of the trader whose key is
\* absent from the fetched list (closed_at set, close_price and realized_pnl
\* left unset) and creates no row for an absent key; with an empty list it
\* closes every OPEN position of the trader and creates nothing.
C3_CloseDetection ==
    [][(CollectStep /\ last'.ok) =>
          LET seen == SeenPositions(last'.api_positions)
          IN /\ \A i \in OpenIds(positions, last'.address) :
                    Key(positions[i]) \notin seen =>
                        /\ positions'[i].status = "CLOSED"
                        /\ positions'[i].closed_at # None
                        /\ positions'[i].close_price = None
                        /\ positions'[i].realized_pnl = None
             /\ \A j \in DOMAIN positions' \ DOMAIN positions :
                    Key(positions'[j]) \in seen]_vars

\* the newest row of the trader and key is CLOSED: the key was closed and has
\* not been opened again since
KeyClosed(rows, tid, key) ==
    LET ids == {i \in DOMAIN rows : rows[i].trader_id = tid /\ Key(rows[i]) = key}
    IN ids # {} /\ \A i \in ids : (\A j \in ids : j <= i) => rows[i].status = "CLOSED"

\* C4: a CLOSED Position is never changed by a later reconciliation, and a key
\* that was closed and comes back in a later fetch of the trader gets a new
\* OPEN row whose opened_at is the time of that run.
C4_ClosedNeverResurrected ==
    [][/\ \A i \in DOMAIN positions :
            positions[i].status = "CLOSED" => positions'[i] = positions[i]
       /\ CollectStep =>
            \A key \in SeenPositions(last'.api_positions) :
                KeyClosed(positions, last'.address, key) =>
                    \E j \in DOMAIN positions' \ DOMAIN positions :
                        /\ positions'[j].trader_id = last'.address
                        /\ Key(positions'[j]) = key
                        /\ positions'[j].status = "OPEN"
                        /\ positions'[j].opened_at = now]_vars

\* the fetched snapshot and the row agree on the fields reconcile maintains
Matches(pos, api_pos) ==
    /\ Key(pos) = Key(api_pos)
    /\ pos.size = api_pos.size
    /\ pos.unrealized_pnl = api_pos.unrealized_pnl
    /\ pos.position_value = api_pos.position_value
    /\ pos.margin_used = api_pos.margin_used
    /\ pos.liquidation_price = api_pos.liquidation_price

\* C5: from a store with at most one OPEN position per key, a successful
\* reconciliation with a fetched list of pairwise distinct keys leaves the
\* trader's OPEN keys equal to the fetched keys, each OPEN row carrying the
\* size, unrealized PnL, notional, margin and liquidation price fetched for it.
C5_ReconcilePostCondition ==
    [][(/\ CollectStep /\ last'.ok
        /\ NoDuplicateOpen(positions)
        /\ DistinctKeys(last'.api_positions)) =>
          /\ OpenKeys(positions', last'.address) = SeenPositions(last'.api_positions)
          /\ \A i \in OpenIds(positions', last'.address) :
                \E m \in DOMAIN last'.api_positions :
                    Matches(positions'[i], last'.api_positions[m])
          /\ NoDuplicateOpen(positions')]_vars

\* a successful run over two distinct keys has updated a BTC long in place
\* (size 2 at the entry price of its first sighting) and opened an ETH short
C5_Witness ==
    /\ last.op = "collect" /\ last.ok /\ Len(last.api_positions) = 2
    /\ DistinctKeys(last.api_positions)
    /\ NoDuplicateOpen(positions)
    /\ \E i, j \in OpenIds(positions, last.address) :
          /\ positions[i].coin = "BTC" /\ positions[i].size = 2
          /\ positions[i].entry_price = 50001
          /\ positions[j].coin = "ETH" /\ j > i

\* C6: a failed fetch of the trader's open positions changes none of the
\* trader's stored Positions in that cycle: no status transition, no field
\* change, no new row.
C6_FailedFetchSkipsTrader ==
    [][(CollectStep /\ ~last'.ok) =>
          /\ Len(positions') = Len(positions)
          /\ \A i \in DOMAIN positions :
                positions[i].trader_id = last'.address => positions'[i] = positions[i]]_vars

\* ====================================================== the generator claims
\* the opportunities that reference the position id
Referencing(opps, id) == {j \in DOMAIN opps : opps[j].position_id = id}

\* the step is a run of analyze_new_positions
AnalyzeStep == last'.op = "analyze"

\* the rows the step added to the opportunities
Created == DOMAIN opportunities' \ DOMAIN opportunities

\* C7: after any sequence of analyze_new_positions runs executed one after
\* another, interleaved with reconciliations and expiry sweeps, at most one
\* TradeOpportunity references any Position id.
C7_OneOpportunityPerPosition ==
    \A id \in DOMAIN positions : Cardinality(Referencing(opportunities, id)) <= 1

\* a run has just gone over a position that is still recent and got its
\* opportunity from an earlier run
C7_Witness ==
    /\ last.op = "analyze"
    /\ \E id \in _get_recent_positions(positions, traders, now) :
          \E j \in Referencing(opportunities, id) : opportunities[j].created_at < now

\* C8: when two analyze_new_positions runs overlap, no interleaving of their
\* existence checks and commits ends with two Opportunities for one Position.
C8_OneOpportunityPerPositionOverlapping ==
    \A j, k \in DOMAIN opportunities :
        opportunities[j].position_id = opportunities[k].position_id => j = k

\* the position is one the run considers: OPEN, opened within the last hour,
\* owned by an active trader and not yet referenced by an opportunity
Qualifies(id) ==
    /\ positions[id].status = "OPEN"
    /\ positions[id].opened_at >= now - RecentHours
    /\ traders[positions[id].trader_id] = "active"
    /\ Referencing(opportunities, id) = {}

\* the trader has a snapshot in the last 30 days and the confidence computed
\* from them is at least 70.0
Generates(tid) ==
    LET metrics == _get_trader_metrics(performance, tid, now)
        confidence == _calculate_confidence_score(metrics)
    IN /\ metrics.count > 0
       /\ confidence.num >= confidence_threshold * confidence.den

\* C9: a run of analyze_new_positions creates exactly one Opportunity for each
\* position that is OPEN, opened within the last hour, owned by an active
\* trader and not yet referenced, when the trader has a snapshot in the last 30
\* days and a confidence >= 70.0 (exactly 70.0 generates), and none otherwise;
\* closed, older or inactive-trader positions yield none.
C9_GenerationGate ==
    [][AnalyzeStep =>
          /\ \A j \in DOMAIN opportunities : opportunities'[j] = opportunities[j]
          /\ \A j \in Created : opportunities'[j].position_id \in DOMAIN positions
          /\ \A id \in DOMAIN positions :
                Cardinality({j \in Created : opportunities'[j].position_id = id})
                    = IF Qualifies(id) /\ Generates(positions[id].trader_id) THEN 1 ELSE 0]_vars

\* a run has just created an opportunity at a confidence of exactly 70.00
C9_Witness ==
    /\ last.op = "analyze"
    /\ \E j \in DOMAIN opportunities :
          /\ opportunities[j].created_at = now
          /\ opportunities[j].confidence_score = 100 * confidence_threshold

\* C10: analyze_new_positions never creates an Opportunity for a trader whose
\* mean daily PnL percentage over the lookback window is zero or positive.
C10_OnlyLosingTraders ==
    [][AnalyzeStep =>
          \A j \in Created :
              _get_trader_metrics(performance, opportunities'[j].trader_id, now)
                  .sum_pnl_percentage < 0]_vars

\* C11: every Opportunity the generator creates has status ACTIVE, the
\* triggering position's side as loser_side and the opposite side as
\* suggested_side, so the two sides differ.
C11_SuggestedSideOpposite ==
    [][AnalyzeStep =>
          \A j \in Created :
              LET opp == opportunities'[j]
                  side == positions[opp.position_id].side
              IN /\ opp.status = "ACTIVE"
                 /\ opp.loser_side = side
                 /\ opp.suggested_side = (IF side = "LONG" THEN "SHORT" ELSE "LONG")
                 /\ opp.suggested_side # opp.loser_side]_vars

\* a run has just created an opportunity against a short and, earlier or in
\* the same run, one against a long
C11_Witness ==
    /\ last.op = "analyze"
    /\ \E j, k \in DOMAIN opportunities :
          /\ opportunities[j].created_at = now
          /\ opportunities[j].loser_side = "SHORT" /\ opportunities[j].suggested_side = "LONG"
          /\ opportunities[k].loser_side = "LONG" /\ opportunities[k].suggested_side = "SHORT"

\* C12: the suggested entry price of a generated Opportunity is the mid price
\* of the position's coin when the mid-price map quotes it and the position's
\* entry price when it does not; loser_entry_price is the position's entry
\* price.
C12_SuggestedEntryPrice ==
    [][\A order \in Orders(_get_recent_positions(positions, traders, now)) :
       \A mids \in [_get_recent_positions(positions, traders, now) -> MidsSet] :
          AnalyzeNewPositionsWith(order, mids) =>
              \A j \in Created :
                  LET opp == opportunities'[j]
                      position == positions[opp.position_id]
                      quotes == mids[opp.position_id]
                  IN /\ opp.loser_entry_price = position.entry_price
                     /\ position.coin \in DOMAIN quotes
                            => opp.suggested_entry_price = quotes[position.coin]
                     /\ position.coin \notin DOMAIN quotes
                            => opp.suggested_entry_price = position.entry_price]_vars

\* opportunities exist at the quoted mid (BTC), at the entry price of a coin
\* the map leaves out (ETH), and at the entry price when the map is empty
C12_Witness ==
    /\ last.op = "analyze"
    /\ \E j \in DOMAIN opportunities :
          opportunities[j].coin = "BTC" /\ opportunities[j].suggested_entry_price = 50500
    /\ \E j \in DOMAIN opportunities :
          /\ opportunities[j].coin = "ETH"
          /\ opportunities[j].suggested_entry_price = opportunities[j].loser_entry_price

\* C13: when the analysis of one position fails during a run of
\* analyze_new_positions, only that position is skipped: every other
\* qualifying position of the run still gets its Opportunity, persisted.
C13_FailureIsolation ==
    [][\A order \in Orders(_get_recent_positions(positions, traders, now)) :
       \A mids \in [_get_recent_positions(positions, traders, now) -> MidsFaulty] :
          AnalyzeNewPositionsFaultyWith(order, mids, TRUE) =>
              \A id \in DOMAIN positions :
                  (/\ Qualifies(id)
                   /\ Generates(positions[id].trader_id)
                   /\ ~Raises(opportunities, performance, positions, id, mids[id], now))
                  => Cardinality({j \in Created : opportunities'[j].position_id = id}) = 1]_vars

\* C14: in every outcome of analyze_new_positions, an exception in the batch
\* or at commit included, the returned list and the rows the call committed
\* are the same Opportunities.
C14_ReturnedArePersisted ==
    [][AnalyzeStep =>
          /\ \A m \in DOMAIN last'.returned :
                \E j \in Created : opportunities'[j] = last'.returned[m]
          /\ \A j \in Created :
                \E m \in DOMAIN last'.returned : last'.returned[m] = opportunities'[j]]_vars

\* the row is ACTIVE and was created before the cutoff of a sweep with the
\* retention hours
Overdue(opp, hours) == opp.status = "ACTIVE" /\ opp.created_at < now - hours

\* C15: expire_old_opportunities(hours=h) changes exactly the Opportunities
\* that are ACTIVE and created earlier than now - h: each becomes EXPIRED with
\* expired_at set; ACTIVE rows within the window and rows already EXECUTED,
\* CANCELLED or EXPIRED are not modified.
C15_ExpireExactlyOverdue ==
    [][\A hours \in ExpireHours :
          ExpireOldOpportunitiesWith(hours) =>
              /\ Len(opportunities') = Len(opportunities)
              /\ \A j \in DOMAIN opportunities :
                    IF Overdue(opportunities[j], hours)
                    THEN /\ opportunities'[j].status = "EXPIRED"
                         /\ opportunities'[j].expired_at = now
                         /\ opportunities'[j].created_at = opportunities[j].created_at
                         /\ opportunities'[j].position_id = opportunities[j].position_id
                    ELSE opportunities'[j] = opportunities[j]]_vars

\* a sweep has just expired a row and left, next to it, an ACTIVE row created
\* exactly 24 hours before or a row in another final status
C15_Witness ==
    /\ last.op = "expire"
    /\ \E j, k \in DOMAIN opportunities :
          /\ opportunities[j].status = "EXPIRED" /\ opportunities[j].expired_at = now
          /\ \/ /\ opportunities[k].status = "ACTIVE"
                /\ opportunities[k].created_at = now - RetentionHours
             \/ opportunities[k].status \in {"EXECUTED", "CANCELLED"}

\* C16: a second expire_old_opportunities run right after a first one with
\* the same retention (the clock has moved on, and no further row has reached
\* the cutoff meanwhile) expires no further row and leaves the expired_at of
\* the rows the first run expired as it was.
C16_ExpireIdempotent ==
    \A hours \in ExpireHours :
        (\A j \in DOMAIN opportunities :
            ~(opportunities[j].status = "ACTIVE"
              /\ opportunities[j].created_at = now - hours))
        => expire_old_opportunities(
               expire_old_opportunities(opportunities, hours, now), hours, now + 1)
           = expire_old_opportunities(opportunities, hours, now)

\* a first run has just expired a row, and no ACTIVE row sits at the cutoff
C16_Witness ==
    /\ last.op = "expire"
    /\ \E j \in DOMAIN opportunities :
          opportunities[j].status = "EXPIRED" /\ opportunities[j].expired_at = now
    /\ \E j \in DOMAIN opportunities :
          opportunities[j].status = "ACTIVE" /\ opportunities[j].created_at > now - RetentionHours
    /\ \A j \in DOMAIN opportunities :
          ~(opportunities[j].status = "ACTIVE"
            /\ opportunities[j].created_at = now - RetentionHours)

\* the reference formula, in thousandths of a point, of a mean PnL p and a
\* mean win rate w in hundredths of a percent and T trades:
\* min(|pnl|/100*50, 50) + max(0, (100 - win_rate)/100*30) + min(T/100*20, 20),
\* plus 10 capped at 100 when pnl < -50 and win_rate < 25, capped at 100
ReferenceScore(p, w, T) ==
    LET base == Min(5 * Abs(p), 50000) + Max(0, 3 * (10000 - w)) + Min(200 * T, 20000)
        bonus == IF p < 0 - 5000 /\ w < 2500 THEN Min(base + 10000, 100000) ELSE base
    IN Min(bonus, 100000)

\* the score just returned was computed from the one snapshot (p, w, T)
ScoredFrom(p, w, T) ==
    /\ last.op = "score"
    /\ Len(performance) = 1
    /\ performance[1].pnl_percentage = p
    /\ performance[1].win_rate = w
    /\ performance[1].total_trades = T

\* C17: the confidence score equals the reference formula of (mean PnL %,
\* mean win rate, total trades); (-80, 20, 100) gives 94.0 and (-20, 45, 50)
\* gives 36.5.
C17_ScoreIsReferenceFormula ==
    /\ (last.op = "score" /\ Len(performance) = 1) =>
          last.confidence.num * 1000
              = ReferenceScore(performance[1].pnl_percentage, performance[1].win_rate,
                               performance[1].total_trades) * last.confidence.den
    /\ ScoredFrom(0 - 8000, 2000, 100) => last.confidence.num * 10 = 940 * last.confidence.den
    /\ ScoredFrom(0 - 2000, 4500, 50) => last.confidence.num * 10 = 365 * last.confidence.den

\* the score of (-80, 20, 100) has just been returned
C17_Witness == ScoredFrom(0 - 8000, 2000, 100) /\ last.confidence.num = 94 * last.confidence.den

\* C18: for a mean win rate in 0..100 and a trade count >= 0, whatever the
\* mean PnL, the score lies in 0..100 with a PnL component of at most 50, a
\* win-rate component of at most 30 and a volume component of at most 20; every
\* Opportunity the generator stored has a confidence_score from 70 to 100.
C18_ScoreInRange ==
    /\ last.op = "score" =>
          LET metrics == _get_trader_metrics(performance, last.address, now)
              den == 1000 * metrics.count
          IN /\ last.confidence.den = den
             /\ 0 <= last.confidence.num /\ last.confidence.num <= 100 * den
             /\ 0 <= pnl_factor(metrics) /\ pnl_factor(metrics) <= 50 * den
             /\ 0 <= win_rate_factor(metrics) /\ win_rate_factor(metrics) <= 30 * den
             /\ 0 <= trade_count_factor(metrics) /\ trade_count_factor(metrics) <= 20 * den
    /\ \A j \in DOMAIN opportunities :
          /\ 100 * confidence_threshold <= opportunities[j].confidence_score
          /\ opportunities[j].confidence_score <= 100 * 100

\* a score has just been returned at the cap for a trader whose three
\* components all exceed their caps before capping, and an Opportunity is
\* stored at 100
C18_Witness ==
    /\ last.op = "score"
    /\ last.confidence.num = 100 * last.confidence.den
    /\ \E i \in DOMAIN performance :
          performance[i].pnl_percentage = 0 - 30000 /\ performance[i].total_trades = 100000
    /\ \E j \in DOMAIN opportunities : opportunities[j].confidence_score = 100 * 100

\* the rows of the store that hold the scenario's position, open and recent
ScenarioRows ==
    {i \in _get_recent_positions(positions, traders, now) :
        /\ positions[i].coin = "ETH" /\ positions[i].side = "SHORT"
        /\ positions[i].entry_price = 3000}

\* C19: for the active trader with 30 daily snapshots of -85.5 % PnL and a
\* 15.0 % win rate whose new position (ETH, SHORT, entry 3000) was stored by a
\* reconciliation, a run of the generator leaves exactly one Opportunity for
\* it, with suggested_side LONG and a confidence of at least 90; the one the
\* run creates has the ETH mid as suggested_entry_price, or 3000 when no ETH
\* mid is quoted.
C19_LoserScenario ==
    [][\A order \in Orders(_get_recent_positions(positions, traders, now)) :
       \A mids \in [_get_recent_positions(positions, traders, now) -> MidsScenario] :
          AnalyzeNewPositionsWith(order, mids) =>
              \A i \in ScenarioRows :
                  /\ Cardinality(Referencing(opportunities', i)) = 1
                  /\ \A j \in Referencing(opportunities', i) :
                        /\ opportunities'[j].coin = "ETH"
                        /\ opportunities'[j].suggested_side = "LONG"
                        /\ opportunities'[j].confidence_score >= 90 * 100
                        /\ opportunities'[j].status = "ACTIVE"
                        /\ j \in Created =>
                              opportunities'[j].suggested_entry_price
                                  = IF "ETH" \in DOMAIN mids[i] THEN mids[i]["ETH"] ELSE 3000]_vars

\* the generator has just run right after the reconciliation that stored the
\* ETH short, and its Opportunity stands at the ETH mid
C19_Witness ==
    /\ last.op = "analyze"
    /\ Len(positions) = 1 /\ Len(opportunities) = 1
    /\ positions[1].coin = "ETH" /\ positions[1].side = "SHORT"
    /\ positions[1].entry_price = 3000 /\ positions[1].opened_at = now
    /\ opportunities[1].position_id = 1 /\ opportunities[1].suggested_side = "LONG"
    /\ opportunities[1].suggested_entry_price = 3100
    /\ opportunities[1].created_at = now

\* the snapshots of the table perf for the trader tid and the date d
SnapshotsOf(perf, tid, d) ==
    {j \in DOMAIN perf : perf[j].trader_id = tid /\ perf[j].date = d}

\* C20: after any sequence of collect_trader_data runs executed one at a
\* time, the store holds at most one TraderPerformance row per (trader,
\* date); a run on a date that already has a row replaces that row's metric
\* fields with the recomputed ones and inserts no row, and a run on a date
\* without one inserts exactly one.
C20_SnapshotUpsert ==
    [][/\ \A j, k \in DOMAIN performance' :
             (/\ performance'[j].trader_id = performance'[k].trader_id
              /\ performance'[j].date = performance'[k].date) => j = k
       /\ \A u \in UserStatesAnalyze :
             CollectTraderData("0xA", u) =>
                 LET had == SnapshotsOf(performance, "0xA", Today(now))
                     row == PerfRow("0xA", Today(now),
                                    _calculate_performance_from_positions(positions, "0xA", now),
                                    u.accountValue)
                 IN /\ \A j \in DOMAIN performance \ had : performance'[j] = performance[j]
                    /\ had # {} => /\ Len(performance') = Len(performance)
                                   /\ \A j \in had : performance'[j] = row
                    /\ had = {} => /\ Len(performance') = Len(performance) + 1
                                   /\ performance'[Len(performance')] = row]_vars

\* a run has just replaced the snapshot an earlier run of the same day wrote:
\* the day's only row counts the position that earlier run stored
C20_Witness ==
    /\ last.op = "collect"
    /\ Cardinality(SnapshotsOf(performance, "0xA", Today(now))) = 1
    /\ \E j \in SnapshotsOf(performance, "0xA", Today(now)) : performance[j].total_trades = 1
    /\ Len(performance) = 2
    /\ \E i \in DOMAIN positions : Today(positions[i].opened_at) = Today(now)

\* the index of the last collection of the address a in the batch
LastRunOf(addresses, a) ==
    CHOOSE i \in DOMAIN addresses :
        addresses[i] = a /\ \A k \in DOMAIN addresses : addresses[k] = a => k <= i

\* C21: collect_multiple_traders(addresses) returns a map with exactly one
\* boolean entry per distinct input address, True iff the collection of that
\* address (its last one when the address is repeated) committed; a failing
\* collection yields False and the remaining addresses are still collected:
\* every address of the batch has its trader row, and every collection that
\* committed left the day's snapshot of its trader.
C21_BatchResults ==
    last.op = "collect_multiple" =>
        /\ DOMAIN last.results = {last.addresses[i] : i \in DOMAIN last.addresses}
        /\ \A a \in DOMAIN last.results :
              /\ last.results[a] \in BOOLEAN
              /\ last.results[a] <=> last.faults[LastRunOf(last.addresses, a)] = "none"
        /\ \A i \in DOMAIN last.addresses :
              /\ traders[last.addresses[i]] # "absent"
              /\ last.faults[i] = "none" =>
                    \E j \in DOMAIN performance :
                        /\ performance[j].trader_id = last.addresses[i]
                        /\ performance[j].date = Today(now)

\* a batch of two traders has just returned False for the first, whose
\* collection failed, and True for the second, whose position is stored
C21_Witness ==
    /\ last.op = "collect_multiple"
    /\ last.addresses = <<"0xA", "0xB">>
    /\ last.faults = <<"reconcile", "none">>
    /\ last.results = [x \in {"0xA", "0xB"} |-> x = "0xB"]
    /\ \E i \in DOMAIN positions : positions[i].trader_id = "0xB"
    /\ \A i \in DOMAIN positions : positions[i].trader_id # "0xA"

\* C22: a run of collect_trader_data that fails in the performance update, in
\* the reconciliation or at commit returns False and leaves every
\* TraderPerformance and Position row, of that trader and of the others, as
\* it was before the call.
C22_FailedRunPersistsNothing ==
    [][\A a \in Addresses : \A u \in UserStatesBatch : \A fault \in Faults \ {"none"} :
          CollectTraderDataWith(a, u, fault) =>
              /\ ~last'.ok
              /\ positions' = positions
              /\ performance' = performance]_vars

\* a run has just failed at commit after a reconciliation that had closed a
\* stored position of the trader, and the position is still OPEN
C22_Witness ==
    /\ last.op = "collect" /\ ~last.ok /\ last.fault = "commit"
    /\ \E i \in OpenIds(positions, last.address) :
          Key(positions[i]) \notin SeenPositions(last.api_positions)

\* C23: get_top_losers(limit) returns a list in which each trader appears at
\* most once, even when the trader has snapshots on several dates, ordered by
\* ascending PnL percentage and with at most `limit` entries.
C23_TopLosersOncePerTrader ==
    last.op = "top_losers" =>
        /\ Len(last.returned) <= last.limit
        /\ \A i, k \in DOMAIN last.returned :
              i < k => last.returned[i].roi_30d_percent <= last.returned[k].roi_30d_percent
        /\ \A i, k \in DOMAIN last.returned :
              last.returned[i].address = last.returned[k].address => i = k

\* C24: in every cycle of _run_scheduler the generator runs only after the
\* cycle's reconciliation phases have finished, and the expiry sweep runs
\* too; hence, while the scheduler keeps running, every ACTIVE Opportunity
\* older than the 24-hour retention window is eventually EXPIRED.
C24_GenerateAndExpireAfterReconciliation ==
    /\ [][\A k \in TaskIds :
             Generate(k) =>
                 \A p \in {"discover", "update"} : runs.tasks[<<k[1], p, k[3]>>].pc = "none"]_vars
    /\ \A j \in {1} :
          (j \in DOMAIN opportunities /\ Overdue(opportunities[j], RetentionHours))
              ~> (opportunities[j].status = "EXPIRED")

\* C25: no two runs of collect_trader_data for the same trader address are in
\* progress at the same time, neither within a cycle nor across consecutive
\* cycles.
C25_SingleWriterPerTrader ==
    \A k1, k2 \in TaskIds :
        (/\ runs.tasks[k1].collecting # ""
         /\ runs.tasks[k1].collecting = runs.tasks[k2].collecting) => k1 = k2

\* C26: after stop() has returned (and start() is not called again) the
\* scheduler loop begins no new collection cycle and no phase task submitted
\* by the scheduler writes to the store.
C26_StopHaltsActivity ==
    [][(runs.stopped /\ runs'.stopped) =>
          /\ \A l \in Loops : ~(runs.loops[l] = "check" /\ runs'.loops[l] = "wait")
          /\ <<traders, positions, performance, opportunities>>'
                = <<traders, positions, performance, opportunities>>]_vars

\* C30: for any sequence of start() and stop() calls, at most one thread is
\* executing the cycles of _run_scheduler at any time.
C30_AtMostOneLoopThread == Cardinality(AliveLoops(runs.loops)) <= 1

StatesOf(rows, tid) ==
    LET mine == SelectSeq(rows, LAMBDA r : r.trader_id = tid)
    IN [i \in DOMAIN mine |-> [mine[i] EXCEPT !.opened_at = 0, !.closed_at = 0]]

\* the position states a reconciliation of the trader tid with the fetched
\* list can leave
Reconciled(rows, tid, api_positions) ==
    {_update_trader_positions(rows, tid, api_positions, m, now) :
        m \in ExistingMaps(rows, tid)}

\* the final position states, per trader, of reconciling first then second
FinalStates(first, api_first, second, api_second) ==
    {[a \in Addresses |-> StatesOf(r2, a)] :
        r2 \in UNION {Reconciled(r1, second, api_second) :
                         r1 \in Reconciled(positions, first, api_first)}}

\* C28: reconciling a trader modifies only Position rows of that trader, and
\* reconciling A then B leaves the same final position states, timestamps
\* ignored, as reconciling B then A.
C28_TradersIndependent ==
    /\ [][CollectStep =>
             /\ \A i \in DOMAIN positions :
                   positions[i].trader_id # last'.address => positions'[i] = positions[i]
             /\ \A j \in DOMAIN positions' \ DOMAIN positions :
                   positions'[j].trader_id = last'.address]_vars
    /\ [](\A ua \in UserStates("0xA") : \A ub \in UserStates("0xB") :
             FinalStates("0xA", get_open_positions(ua), "0xB", get_open_positions(ub))
                 = FinalStates("0xB", get_open_positions(ub), "0xA", get_open_positions(ua)))

\* the second trader has just been reconciled, a position of its own opened,
\* while the first trader holds an OPEN position
C28_Witness ==
    /\ last.op = "collect" /\ last.address = "0xB" /\ last.api_positions # <<>>
    /\ \E i \in OpenIds(positions, "0xB") : positions[i].opened_at = now
    /\ OpenIds(positions, "0xA") # {}

====
